---------------------------- MODULE Spec2Model ----------------------------
(***************************************************************************)
(* Model of src/src/TradeHistory.tsx: the TradeHistory React component     *)
(* (state, effects, the two fetches) and its three numeric routines        *)
(* formatAmountWithToken, calculateVolume and calculateTotalVolume.        *)
(*                                                                         *)
(* Representation.                                                         *)
(*  - A JavaScript string is a sequence of one-character strings.          *)
(*  - A bn.js BN is an integer (TLC integers; the bounds keep every value  *)
(*    far below 2^31).                                                     *)
(*  - A JavaScript number is an exact rational [n, d] with d > 0; binary   *)
(*    floating-point representation error is not modelled.                 *)
(*  - An optional field (Token.price) is a sequence of length 0 or 1.      *)
(*  - The outcome of a call that may throw is a record with a threw flag.  *)
(*  - Trade fields origin, path and extrinsic_index are read by no         *)
(*    computation of the file and are left out of the trade record.        *)
(***************************************************************************)
EXTENDS Integers, Sequences, FiniteSets, TLC

VARIABLES
    accountId,      \* useState<string>('')                       line 32
    trades,         \* useState<MultiSwap[]>([])                  line 33
    tokenMap,       \* useState<Map<string, Token>>(new Map())    line 34
    error,          \* useState<string | null>(null)              line 35
    totalVolume,    \* useState<number>(0)                        line 36
    tokensReq,      \* position of the fetchTokens call started on mount
    calls,          \* the fetchTrades calls started so far, each with its position
    effectPending,  \* the [trades] effect of the last commit has not run yet
    crashed,        \* a render threw: React has unmounted the component
    bnStrict,       \* which bn.js the build links: TRUE = 5.x (rejects bad characters)
    phase,          \* position of the function-level harnesses
    fmtAmount,      \* argument `amount` of formatAmountWithToken
    fmtAddress,     \* argument `address` of formatAmountWithToken
    fmtOut,         \* outcome of formatAmountWithToken
    volOut,         \* outcomes of calculateVolume, one per trade (the Volume column)
    totOut          \* outcome of calculateTotalVolume and the rendered total

vars == <<accountId, trades, tokenMap, error, totalVolume, tokensReq, calls,
          effectPending, crashed, bnStrict, phase, fmtAmount, fmtAddress,
          fmtOut, volOut, totOut>>

compVars == <<accountId, trades, tokenMap, error, totalVolume, tokensReq,
              calls, effectPending, crashed>>

fnVars == <<phase, fmtAmount, fmtAddress, fmtOut, volOut, totOut>>

(***************************************************************************)
(* Bounds of the model.                                                    *)
(***************************************************************************)
MaxLen == 3         \* longest amount string given to formatAmountWithToken
MaxDecimals == 5    \* largest Token.decimals given to formatAmountWithToken
MaxTrades == 2      \* longest trade sequence given to calculateTotalVolume
MaxClicks == 2      \* clicks on Show in one run of the component

(***************************************************************************)
(* Strings and integers.                                                   *)
(***************************************************************************)
Digits == <<"0", "1", "2", "3", "4", "5", "6", "7", "8", "9">>

IsDigit(c) == \E i \in 1..10 : Digits[i] = c

\* str.charCodeAt(i) - 48 for the characters the model uses
CharCode48(c) ==
    IF IsDigit(c) THEN (CHOOSE i \in 1..10 : Digits[i] = c) - 1
    ELSE IF c = "." THEN 0 - 2
    ELSE IF c = "-" THEN 0 - 3
    ELSE 0 - 16

Abs(x) == IF x < 0 THEN 0 - x ELSE x

RECURSIVE Pow10(_)
Pow10(k) == IF k = 0 THEN 1 ELSE 10 * Pow10(k - 1)

RECURSIVE NatToString(_)
NatToString(n) ==
    IF n < 10 THEN <<Digits[n + 1]>>
    ELSE NatToString(n \div 10) \o <<Digits[(n % 10) + 1]>>

\* BN.prototype.toString(10)
BNtoString(x) == IF x < 0 THEN <<"-">> \o NatToString(0 - x) ELSE NatToString(x)

\* parseBase of bn.js: the digits of str[from..], base 10, without validation
RECURSIVE parseBase(_, _, _)
parseBase(str, from, acc) ==
    IF from > Len(str) THEN acc
    ELSE parseBase(str, from + 1, acc * 10 + CharCode48(str[from]))

AllDigits(str, from) == \A i \in from..Len(str) : IsDigit(str[i])

\* new BN(str): a leading "-" is taken as the sign by every bn.js; any other
\* non-digit character makes bn.js 5.x throw ('Invalid character'), while
\* bn.js 4.x folds its character code into the value.
newBN(str, strict) ==
    LET neg   == Len(str) > 0 /\ str[1] = "-"
        start == IF neg THEN 2 ELSE 1
        mag   == parseBase(str, start, 0)
    IN  IF strict /\ ~AllDigits(str, start)
        THEN [threw |-> TRUE, val |-> 0]
        ELSE [threw |-> FALSE, val |-> IF neg THEN 0 - mag ELSE mag]

BNdiv_nearest(a, b) == (2 * Abs(a) + b) \div (2 * b)

\* BN.prototype.div: the quotient truncated toward zero (b > 0)
BNdiv(a, b) == IF a < 0 THEN 0 - (Abs(a) \div b) ELSE a \div b

\* BN.prototype.mod: the remainder, with the sign of the dividend (b > 0)
BNmod(a, b) == IF a < 0 THEN 0 - (Abs(a) % b) ELSE a % b

RECURSIVE Zeros(_)
Zeros(k) == IF k <= 0 THEN <<>> ELSE <<"0">> \o Zeros(k - 1)

padStart_none(str, n) == str

\* String.prototype.padStart(n, '0')
padStart(str, n) == Zeros(n - Len(str)) \o str

\* String.prototype.slice(0, n)
slice0(str, n) == IF Len(str) > n THEN SubSeq(str, 1, n) ELSE str

(***************************************************************************)
(* The token registry.  A Map<string, Token> is a function from the        *)
(* addresses it holds to their Token records.                              *)
(***************************************************************************)
EmptyMap == [a \in {} |-> 0]

Has(map, address) == address \in DOMAIN map

\* new Map(data.map(token => [token.address, token])): the later record wins
RECURSIVE MapFromTokens(_, _)
MapFromTokens(data, i) ==
    IF i = 0 THEN EmptyMap
    ELSE LET before == MapFromTokens(data, i - 1)
         IN  [a \in DOMAIN before \cup {data[i].address} |->
                 IF a = data[i].address THEN data[i] ELSE before[a]]

(***************************************************************************)
(* formatAmountWithToken, lines 96-111.                                    *)
(***************************************************************************)
formatAmountWithToken(amount, address, map, strict) ==
    IF ~Has(map, address) THEN [threw |-> FALSE, str |-> amount]
    ELSE
      LET token    == map[address]
          decimals == token.decimals
          bnAmount == newBN(amount, strict)
          divisor  == Pow10(decimals)
      IN  IF bnAmount.threw THEN [threw |-> TRUE, str |-> <<>>]
          ELSE
            LET integerPart == BNtoString(BNdiv(bnAmount.val, divisor))
                padded      == padStart(BNtoString(BNmod(bnAmount.val, divisor)), decimals)
                fractionalPart == IF Len(padded) > 3 THEN slice0(padded, 3) ELSE padded
            IN  [threw |-> FALSE,
                 str |-> integerPart \o <<".">> \o fractionalPart \o <<" ">> \o token.symbol]

(***************************************************************************)
(* JavaScript numbers, as exact rationals in lowest terms.                 *)
(***************************************************************************)
RECURSIVE GCD(_, _)
GCD(a, b) == IF b = 0 THEN a ELSE GCD(b, a % b)

Rat(n, d) ==
    LET g == GCD(Abs(n), d)
    IN  IF n = 0 THEN [n |-> 0, d |-> 1] ELSE [n |-> n \div g, d |-> d \div g]

Zero == [n |-> 0, d |-> 1]

RatAdd(x, y) == Rat(x.n * y.d + y.n * x.d, x.d * y.d)

RatMul(x, y) == Rat(x.n * y.n, x.d * y.d)

\* x / y for y > 0
RatDiv(x, y) == Rat(x.n * y.d, x.d * y.n)

RatLess(x, y) == x.n * y.d < y.n * x.d

MathMin(x, y) == IF RatLess(x, y) THEN x ELSE y

\* Math.max, line 133
MathMax(x, y) == IF RatLess(x, y) THEN y ELSE x

\* Number.prototype.toFixed(3): the nearest multiple of 0.001, the larger one
\* on a tie, of the magnitude; a "-" in front when the number is below zero
toFixed3(x) ==
    LET k == (2 * Abs(x.n) * 1000 + x.d) \div (2 * x.d)
    IN  (IF x.n < 0 THEN <<"-">> ELSE <<>>)
        \o NatToString(k \div 1000) \o <<".">> \o padStart(NatToString(k % 1000), 3)

IndexOf(str, c) ==
    IF \E i \in 1..Len(str) : str[i] = c
    THEN CHOOSE i \in 1..Len(str) : str[i] = c /\ \A j \in 1..(i - 1) : str[j] # c
    ELSE 0

\* parseFloat of a string of the shape -?digits(.digits)?, which is the shape
\* of every string the file gives it (BN.toString() and toFixed(3))
parseFloat(str) ==
    LET neg   == Len(str) > 0 /\ str[1] = "-"
        body  == IF neg THEN Tail(str) ELSE str
        dot   == IndexOf(body, ".")
        whole == IF dot = 0 THEN body ELSE SubSeq(body, 1, dot - 1)
        frac  == IF dot = 0 THEN <<>> ELSE SubSeq(body, dot + 1, Len(body))
        mag   == Rat(parseBase(whole, 1, 0) * Pow10(Len(frac)) + parseBase(frac, 1, 0),
                     Pow10(Len(frac)))
    IN  IF neg THEN [n |-> 0 - mag.n, d |-> mag.d] ELSE mag

(***************************************************************************)
(* calculateVolume, lines 113-136.                                         *)
(***************************************************************************)
priceOf_one(map, address) ==
    IF Has(map, address) /\ map[address].price # <<>> /\ map[address].price[1].n # 0
    THEN map[address].price[1]
    ELSE [n |-> 1, d |-> 1]

\* tokenIn?.price || 0.0, lines 117-118
priceOf(map, address) ==
    IF Has(map, address) /\ map[address].price # <<>> /\ map[address].price[1].n # 0
    THEN map[address].price[1]
    ELSE Zero

\* tokenIn?.decimals || 0, lines 123-124
decimalsOf(map, address) == IF Has(map, address) THEN map[address].decimals ELSE 0

calculateVolume(trade, map, strict) ==
    LET priceIn    == priceOf(map, trade.token_in)
        priceOut   == priceOf(map, trade.token_out)
        amountIn   == newBN(trade.amount_in, strict)
        amountOut  == newBN(trade.amount_out, strict)
        divisorIn  == Pow10(decimalsOf(map, trade.token_in))
        divisorOut == Pow10(decimalsOf(map, trade.token_out))
    IN  IF amountIn.threw \/ amountOut.threw THEN [threw |-> TRUE, str |-> <<>>]
        ELSE
          LET humanAmountInFloat  == RatDiv(parseFloat(BNtoString(amountIn.val)),
                                            parseFloat(BNtoString(divisorIn)))
              humanAmountOutFloat == RatDiv(parseFloat(BNtoString(amountOut.val)),
                                            parseFloat(BNtoString(divisorOut)))
              valueIn  == RatMul(humanAmountInFloat, priceIn)
              valueOut == RatMul(humanAmountOutFloat, priceOut)
              volume   == MathMax(valueIn, valueOut)
          IN  [threw |-> FALSE, str |-> toFixed3(volume)]

(***************************************************************************)
(* calculateTotalVolume, lines 138-141: the reduce of line 139.  The value *)
(* is handed to setTotalVolume only when no calculateVolume threw.         *)
(***************************************************************************)
RECURSIVE reduceExact(_, _, _, _)
reduceExact(trs, i, map, strict) ==
    IF i = 0 THEN Zero
    ELSE LET t == trs[i]
             v == MathMax(
                    RatMul(Rat(newBN(t.amount_in, strict).val,
                               Pow10(decimalsOf(map, t.token_in))),
                           priceOf(map, t.token_in)),
                    RatMul(Rat(newBN(t.amount_out, strict).val,
                               Pow10(decimalsOf(map, t.token_out))),
                           priceOf(map, t.token_out)))
         IN  RatAdd(reduceExact(trs, i - 1, map, strict), v)

calculateTotalVolume_exact(trs, map, strict) ==
    IF \E i \in 1..Len(trs) : calculateVolume(trs[i], map, strict).threw
    THEN [threw |-> TRUE, val |-> Zero]
    ELSE [threw |-> FALSE, val |-> reduceExact(trs, Len(trs), map, strict)]

RECURSIVE reduce(_, _, _, _)
reduce(trs, i, map, strict) ==
    IF i = 0 THEN Zero
    ELSE RatAdd(reduce(trs, i - 1, map, strict),
                parseFloat(calculateVolume(trs[i], map, strict).str))

calculateTotalVolume(trs, map, strict) ==
    IF \E i \in 1..Len(trs) : calculateVolume(trs[i], map, strict).threw
    THEN [threw |-> TRUE, val |-> Zero]
    ELSE [threw |-> FALSE, val |-> reduce(trs, Len(trs), map, strict)]

(***************************************************************************)
(* State of the component right after construction (lines 32-36), shared   *)
(* by the function-level specifications, which leave it alone.             *)
(***************************************************************************)
NoOut == [threw |-> FALSE, str |-> <<>>]

NoTotal == [threw |-> FALSE, val |-> Zero, str |-> <<>>]

Unmounted ==
    /\ accountId = ""
    /\ error = <<>>
    /\ totalVolume = Zero
    /\ tokensReq = "idle"
    /\ calls = <<>>
    /\ effectPending = FALSE
    /\ crashed = FALSE

(***************************************************************************)
(* SpecFormat: formatAmountWithToken applied to every amount string of at  *)
(* most MaxLen characters over RawChars, with the token "T" known to the   *)
(* registry with 0..MaxDecimals decimals, or unknown to it.                *)
(***************************************************************************)
RawChars == {"0", "1", "2", "5", "9", "-", "."}

RawStrings == UNION {[1..k -> RawChars] : k \in 1..MaxLen}

FmtToken(d) == [address |-> "T", symbol |-> <<"T">>, decimals |-> d, price |-> <<>>]

FmtRegistries == {EmptyMap} \cup {MapFromTokens(<<FmtToken(d)>>, 1) : d \in 0..MaxDecimals}

InitFormat ==
    /\ Unmounted
    /\ bnStrict \in BOOLEAN
    /\ tokenMap \in FmtRegistries
    /\ trades = <<>>
    /\ fmtAmount \in RawStrings
    /\ fmtAddress = "T"
    /\ phase = "input"
    /\ fmtOut = NoOut
    /\ volOut = <<>>
    /\ totOut = NoTotal

\* one table cell, lines 178-179
FormatCell ==
    /\ phase = "input"
    /\ phase' = "done"
    /\ fmtOut' = formatAmountWithToken(fmtAmount, fmtAddress, tokenMap, bnStrict)
    /\ UNCHANGED <<compVars, bnStrict, fmtAmount, fmtAddress, volOut, totOut>>

NextFormat == FormatCell

SpecFormat == InitFormat /\ [][NextFormat]_vars

(***************************************************************************)
(* SpecVolume: calculateVolume and calculateTotalVolume applied to every   *)
(* sequence of at most MaxTrades trades of VolTrades, under the registry   *)
(* VolTokens or the empty one.  Address "U" is in no registry.             *)
(***************************************************************************)
VolTokens == <<
    [address |-> "A", symbol |-> <<"A">>, decimals |-> 1, price |-> <<[n |-> 5, d |-> 2]>>],
    [address |-> "B", symbol |-> <<"B">>, decimals |-> 1, price |-> <<[n |-> 1, d |-> 1]>>],
    [address |-> "C", symbol |-> <<"C">>, decimals |-> 0, price |-> <<>>],
    [address |-> "D", symbol |-> <<"D">>, decimals |-> 3, price |-> <<[n |-> 1, d |-> 2]>>] >>

VolRegistries == {EmptyMap, MapFromTokens(VolTokens, Len(VolTokens))}

TokenPairs == {<<"A", "B">>, <<"D", "D">>, <<"U", "U">>, <<"A", "U">>,
               <<"U", "B">>, <<"C", "A">>, <<"D", "C">>}

AmountPairs == {<< <<"1", "0", "0">>, <<"2", "4", "0">> >>,
                << <<"1">>, <<"1">> >>,
                << <<"-", "5">>, <<"1">> >>,
                << <<"1", ".", "5">>, <<"3">> >>}

VolTrades ==
    {[token_in |-> tp[1], token_out |-> tp[2], amount_in |-> ap[1],
      amount_out |-> ap[2], block_num |-> 1] : tp \in TokenPairs, ap \in AmountPairs}

InitVolume ==
    /\ Unmounted
    /\ bnStrict \in BOOLEAN
    /\ tokenMap \in VolRegistries
    /\ trades \in UNION {[1..k -> VolTrades] : k \in 0..MaxTrades}
    /\ fmtAmount = <<>>
    /\ fmtAddress = ""
    /\ phase = "input"
    /\ fmtOut = NoOut
    /\ volOut = <<>>
    /\ totOut = NoTotal

\* the Volume column of the table, line 181
RenderVolumes ==
    /\ phase = "input"
    /\ phase' = "rendered"
    /\ volOut' = [i \in 1..Len(trades) |-> calculateVolume(trades[i], tokenMap, bnStrict)]
    /\ UNCHANGED <<compVars, bnStrict, fmtAmount, fmtAddress, fmtOut, totOut>>

\* calculateTotalVolume, lines 138-141, and the total of line 157
Aggregate ==
    /\ phase = "rendered"
    /\ phase' = "done"
    /\ LET out == calculateTotalVolume(trades, tokenMap, bnStrict)
       IN  totOut' = IF out.threw
                     THEN [threw |-> TRUE, val |-> Zero, str |-> <<>>]
                     ELSE [threw |-> FALSE, val |-> out.val, str |-> toFixed3(out.val)]
    /\ UNCHANGED <<compVars, bnStrict, fmtAmount, fmtAddress, fmtOut, volOut>>

NextVolume == RenderVolumes \/ Aggregate

SpecVolume == InitVolume /\ [][NextVolume]_vars

(***************************************************************************)
(* Reference definitions the properties are stated with.  They are written *)
(* from the meaning of the quantities, not with the routines above.        *)
(***************************************************************************)
\* a valid non-negative base-10 integer string
ValidRaw(str) == Len(str) > 0 /\ \A i \in 1..Len(str) : IsDigit(str[i])

DigitValue(c) == CHOOSE v \in 0..9 : Digits[v + 1] = c

\* the integer a valid string denotes: the sum of digit * 10^position
RECURSIVE RefSum(_, _)
RefSum(str, i) ==
    IF i = 0 THEN 0
    ELSE DigitValue(str[i]) * Pow10(Len(str) - i) + RefSum(str, i - 1)

RefValue(str) == RefSum(str, Len(str))

\* the amount of a formatted cell: what stands before the blank and the symbol
AmountOf(cell) ==
    LET sp == IndexOf(cell, " ")
    IN  IF sp = 0 THEN cell ELSE SubSeq(cell, 1, sp - 1)

IntegerPartOf(cell) ==
    LET a == AmountOf(cell)  dot == IndexOf(a, ".")
    IN  IF dot = 0 THEN a ELSE SubSeq(a, 1, dot - 1)

FractionOf(cell) ==
    LET a == AmountOf(cell)  dot == IndexOf(a, ".")
    IN  IF dot = 0 THEN <<>> ELSE SubSeq(a, dot + 1, Len(a))

Min(a, b) == IF a < b THEN a ELSE b

Max(a, b) == IF a < b THEN b ELSE a

FmtKnown == Has(tokenMap, fmtAddress)

FmtDecimals == IF FmtKnown THEN tokenMap[fmtAddress].decimals ELSE 0

FmtDone == phase = "done" /\ fmtAmount # <<>>

\* C3 (as the specification states it): with decimals = 0 the result is the
\* integer alone, with no separator and no fractional digits.
C3_IntegerOnlyAtZeroDecimals ==
    (FmtDone /\ ValidRaw(fmtAmount) /\ FmtDecimals = 0)
        => /\ ~fmtOut.threw
           /\ IndexOf(AmountOf(fmtOut.str), ".") = 0
           /\ ValidRaw(AmountOf(fmtOut.str))
           /\ RefValue(AmountOf(fmtOut.str)) = RefValue(fmtAmount)

\* C4: for a valid amount a, the digits before the separator are a decimal
\* numeral whose value is exactly floor(a / 10^decimals).
C4_IntegerPartExact ==
    (FmtDone /\ ValidRaw(fmtAmount))
        => /\ ~fmtOut.threw
           /\ ValidRaw(IntegerPartOf(fmtOut.str))
           /\ RefValue(IntegerPartOf(fmtOut.str))
                 = RefValue(fmtAmount) \div Pow10(FmtDecimals)

C4_Witness ==
    /\ FmtDone /\ FmtKnown /\ FmtDecimals = 2
    /\ fmtAmount = <<"9", "9", "5">>
    /\ IntegerPartOf(fmtOut.str) = <<"9">>

\* C5: for a valid amount a and decimals > 0, the fractional digits are the
\* first min(3, decimals) digits of a mod 10^decimals written with decimals
\* digits: digit i is floor(a / 10^(decimals - i)) mod 10, never rounded up.
C5_FractionTruncated ==
    (FmtDone /\ ValidRaw(fmtAmount) /\ FmtKnown /\ FmtDecimals > 0)
        => /\ ~fmtOut.threw
           /\ FractionOf(fmtOut.str)
                 = [i \in 1..Min(3, FmtDecimals) |->
                       Digits[((RefValue(fmtAmount) \div Pow10(FmtDecimals - i)) % 10) + 1]]

C5_Witness ==
    /\ FmtDone /\ FmtKnown /\ FmtDecimals = 4
    /\ fmtAmount = <<"9">>
    /\ FractionOf(fmtOut.str) = <<"0", "0", "0">>

\* C8 (as the specification states it): format fails with a ParseError
\* exactly on the amounts that are not valid non-negative integer strings.
C8_ParseErrorOnInvalid ==
    FmtDone => (fmtOut.threw <=> ~ValidRaw(fmtAmount))

\* n/d rounded to the nearest thousandth (ties upward), in thousandths
RoundK(n, d) == (2000 * n + d) \div (2 * d)

\* one leg's value in thousandths: (amount / 10^decimals) * price, with a
\* token the registry does not hold, or holds without a price, worth 0
RefLegK(map, address, amount) ==
    IF address \in DOMAIN map /\ map[address].price # <<>>
    THEN RoundK(RefValue(amount) * map[address].price[1].n,
                Pow10(map[address].decimals) * map[address].price[1].d)
    ELSE 0

\* rounding is monotone: the rounded maximum is the maximum of the rounded legs
RefVolumeK(map, t) ==
    Max(RefLegK(map, t.token_in, t.amount_in), RefLegK(map, t.token_out, t.amount_out))

ValidTrade(t) == ValidRaw(t.amount_in) /\ ValidRaw(t.amount_out)

\* a rendered number has the shape digits "." three digits
ThreeDigits(str) ==
    /\ Len(str) >= 5
    /\ str[Len(str) - 3] = "."
    /\ ValidRaw(SubSeq(str, 1, Len(str) - 4))
    /\ ValidRaw(SubSeq(str, Len(str) - 2, Len(str)))

\* its value in thousandths
KOf(str) ==
    RefValue(SubSeq(str, 1, Len(str) - 4)) * 1000 + RefValue(SubSeq(str, Len(str) - 2, Len(str)))

RECURSIVE SumK(_, _, _)
SumK(map, trs, i) ==
    IF i = 0 THEN 0
    ELSE SumK(map, trs, i - 1) + (IF ValidTrade(trs[i]) THEN RefVolumeK(map, trs[i]) ELSE 0)

Priced(map, address) == address \in DOMAIN map /\ map[address].price # <<>>

Rendered == phase \in {"rendered", "done"} /\ fmtAddress = ""

Aggregated == phase = "done" /\ fmtAddress = ""

AllValid == \A i \in 1..Len(trades) : ValidTrade(trades[i])

\* C2: over valid trades the rendered total has 3 fractional digits and is
\* the sum of the per-trade volumes, each already rounded to thousandths;
\* over no trades it is 0.000.
C2_TotalIsSumOfRounded ==
    (Aggregated /\ AllValid)
        => /\ ~totOut.threw
           /\ ThreeDigits(totOut.str)
           /\ KOf(totOut.str) = SumK(tokenMap, trades, Len(trades))
           /\ (trades = <<>> => totOut.str = <<"0", ".", "0", "0", "0">>)

\* two trades worth 0.0005 each: 0.001 + 0.001, where the exact sum rounds to 0.001
C2_Witness ==
    /\ Aggregated /\ AllValid /\ Len(trades) = 2
    /\ \A i \in 1..2 : volOut[i].str = <<"0", ".", "0", "0", "1">>
                       /\ trades[i].amount_in = <<"1">> /\ trades[i].token_in = "D"
    /\ totOut.str = <<"0", ".", "0", "0", "2">>

\* C6: the volume of a valid trade is max(value_in, value_out), rendered with
\* exactly 3 fractional digits, rounded to the nearest thousandth.
C6_VolumeIsMaxOfLegs ==
    Rendered =>
        \A i \in 1..Len(trades) :
            ValidTrade(trades[i])
                => /\ ~volOut[i].threw
                   /\ ThreeDigits(volOut[i].str)
                   /\ KOf(volOut[i].str) = RefVolumeK(tokenMap, trades[i])

\* human amounts 10 and 24 at prices 2.5 and 1.0
C6_Witness ==
    /\ Rendered /\ Len(trades) = 1
    /\ trades[1].token_in = "A" /\ trades[1].amount_in = <<"1", "0", "0">>
    /\ trades[1].token_out = "B" /\ trades[1].amount_out = <<"2", "4", "0">>
    /\ Has(tokenMap, "A")
    /\ volOut[1].str = <<"2", "5", ".", "0", "0", "0">>

\* C7: a leg whose token the registry does not hold, or holds without a
\* price, is no error and is worth 0: the volume is the other leg's value,
\* and 0.000 when neither token is known.
C7_MissingLegIsZero ==
    Rendered =>
        \A i \in 1..Len(trades) :
            LET t == trades[i] IN
            ValidTrade(t) =>
                /\ ~volOut[i].threw
                /\ ~Priced(tokenMap, t.token_in)
                      => KOf(volOut[i].str) = RefLegK(tokenMap, t.token_out, t.amount_out)
                /\ ~Priced(tokenMap, t.token_out)
                      => KOf(volOut[i].str) = RefLegK(tokenMap, t.token_in, t.amount_in)
                /\ (~Has(tokenMap, t.token_in) /\ ~Has(tokenMap, t.token_out))
                      => volOut[i].str = <<"0", ".", "0", "0", "0">>

\* token_in unknown to a registry that prices token_out
C7_Witness ==
    /\ Rendered /\ Len(trades) = 1
    /\ trades[1].token_in = "U" /\ trades[1].token_out = "B"
    /\ trades[1].amount_out = <<"2", "4", "0">>
    /\ Has(tokenMap, "B")
    /\ volOut[1].str = <<"2", "4", ".", "0", "0", "0">>

\* C9 (as the specification states it): a trade with an invalid amount does
\* not stop the aggregation; the total is produced and covers exactly the
\* remaining trades, the failing one being left out of it.
C9_BadTradeIsLocal ==
    (Aggregated /\ ~AllValid)
        => /\ ~totOut.threw
           /\ ThreeDigits(totOut.str)
           /\ KOf(totOut.str) = SumK(tokenMap, trades, Len(trades))

(***************************************************************************)
(* Spec: the component.  Every state setter schedules a render; React runs *)
(* the effects of a commit before it handles the next event or update, so  *)
(* nothing but RunEffect is enabled while an effect is pending.  A render  *)
(* that throws has no error boundary above it: React unmounts the          *)
(* component and every later setter call is ignored.                       *)
(***************************************************************************)
AccountIds == {"", "5Fq"}

TokenResponses ==
    { VolTokens,
      <<VolTokens[4]>>,
      <<VolTokens[4],
        [address |-> "D", symbol |-> <<"D">>, decimals |-> 3, price |-> <<[n |-> 1, d |-> 1]>>]>> }

T1 == [token_in |-> "A", token_out |-> "B", amount_in |-> <<"1", "0", "0">>,
       amount_out |-> <<"2", "4", "0">>, block_num |-> 1]

T2 == [token_in |-> "D", token_out |-> "D", amount_in |-> <<"1">>,
       amount_out |-> <<"1">>, block_num |-> 2]

T3 == [token_in |-> "D", token_out |-> "U", amount_in |-> <<"1", ".", "5">>,
       amount_out |-> <<"3">>, block_num |-> 2]

\* result.data of the /trades responses the server may give, in its order
TradeResponses == {<<>>, <<T2>>, <<T1, T2>>, <<T1, T3>>}

RECURSIVE insertAscending(_, _)
insertAscending(sorted, t) ==
    IF sorted = <<>> THEN <<t>>
    ELSE IF Head(sorted).block_num > t.block_num
         THEN <<t>> \o sorted
         ELSE <<Head(sorted)>> \o insertAscending(Tail(sorted), t)

RECURSIVE sortAscending(_, _)
sortAscending(data, i) ==
    IF i = 0 THEN <<>> ELSE insertAscending(sortAscending(data, i - 1), data[i])

sortTrades_ascending(data) == sortAscending(data, Len(data))

\* t goes after every element whose block_num is not smaller (a stable sort)
RECURSIVE insertDescending(_, _)
insertDescending(sorted, t) ==
    IF sorted = <<>> THEN <<t>>
    ELSE IF Head(sorted).block_num < t.block_num
         THEN <<t>> \o sorted
         ELSE <<Head(sorted)>> \o insertDescending(Tail(sorted), t)

RECURSIVE sortDescending(_, _)
sortDescending(data, i) ==
    IF i = 0 THEN <<>> ELSE insertDescending(sortDescending(data, i - 1), data[i])

\* result.data.sort((a, b) => b.block_num - a.block_num), line 79
sortTrades(data) == sortDescending(data, Len(data))

\* the table body, lines 174-183: some cell's computation throws
renderThrows(trs, map, strict) ==
    \E i \in 1..Len(trs) :
        \/ formatAmountWithToken(trs[i].amount_in, trs[i].token_in, map, strict).threw
        \/ formatAmountWithToken(trs[i].amount_out, trs[i].token_out, map, strict).threw
        \/ calculateVolume(trs[i], map, strict).threw

Init ==
    /\ accountId = ""
    /\ trades = <<>>
    /\ tokenMap = EmptyMap
    /\ error = <<>>
    /\ totalVolume = Zero
    /\ tokensReq = "idle"
    /\ calls = <<>>
    /\ effectPending = FALSE
    /\ crashed = FALSE
    /\ bnStrict \in BOOLEAN
    /\ phase = "constructed"
    /\ fmtAmount = <<>>
    /\ fmtAddress = ""
    /\ fmtOut = NoOut
    /\ volOut = <<>>
    /\ totOut = NoTotal

Live == phase = "mounted" /\ ~crashed /\ ~effectPending

\* the effects of the first commit, lines 38-44: fetchTokens() is started and
\* calculateTotalVolume() runs over the empty trades
MountEffects ==
    /\ phase = "constructed"
    /\ phase' = "mounted"
    /\ tokensReq' = "pending"
    /\ totalVolume' = calculateTotalVolume(trades, tokenMap, bnStrict).val
    /\ UNCHANGED <<accountId, trades, tokenMap, error, calls, effectPending, crashed,
                   bnStrict, fmtAmount, fmtAddress, fmtOut, volOut, totOut>>

\* fetchTokens, lines 48-52: the response is ok
TokensLoaded(data) ==
    /\ Live
    /\ tokensReq = "pending"
    /\ tokensReq' = "done"
    /\ LET map == MapFromTokens(data, Len(data))
       IN  IF renderThrows(trades, map, bnStrict)
           THEN crashed' = TRUE /\ UNCHANGED tokenMap
           ELSE tokenMap' = map /\ UNCHANGED crashed
    /\ UNCHANGED <<accountId, trades, error, totalVolume, calls, effectPending,
                   bnStrict, fnVars>>

\* fetchTokens, lines 49 and 53-55: not ok, or the fetch rejected
TokensFailed(msg) ==
    /\ Live
    /\ tokensReq = "pending"
    /\ tokensReq' = "done"
    /\ error' = <<msg>>
    /\ UNCHANGED <<accountId, trades, tokenMap, totalVolume, calls, effectPending,
                   crashed, bnStrict, fnVars>>

\* handleInputChange, lines 86-88
handleInputChange(value) ==
    /\ Live
    /\ accountId' = value
    /\ UNCHANGED <<trades, tokenMap, error, totalVolume, tokensReq, calls,
                   effectPending, crashed, bnStrict, fnVars>>

\* handleButtonClick, lines 90-92: fetchTrades() is started, with the accountId
\* of the current render in its closure for the query of lines 69-72, and
\* awaits /status.  Whatever the query, the server may send any of
\* TradeResponses.
handleButtonClick ==
    /\ Live
    /\ Len(calls) < MaxClicks
    /\ calls' = Append(calls, [stage |-> "status", contract_address |-> accountId])
    /\ UNCHANGED <<accountId, trades, tokenMap, error, totalVolume, tokensReq,
                   effectPending, crashed, bnStrict, fnVars>>

\* fetchTrades, lines 60-74: /status is ok; the query is built and /trades is
\* awaited
StatusLoaded(i) ==
    /\ Live
    /\ calls[i].stage = "status"
    /\ calls' = [calls EXCEPT ![i].stage = "trades"]
    /\ UNCHANGED <<accountId, trades, tokenMap, error, totalVolume, tokensReq,
                   effectPending, crashed, bnStrict, fnVars>>

\* fetchTrades, lines 61 and 76, 81-83: a response is not ok, or a fetch rejected
FetchTradesFailed(i, msg) ==
    /\ Live
    /\ calls[i].stage \in {"status", "trades"}
    /\ calls' = [calls EXCEPT ![i].stage = "failed"]
    /\ error' = <<msg>>
    /\ UNCHANGED <<accountId, trades, tokenMap, totalVolume, tokensReq,
                   effectPending, crashed, bnStrict, fnVars>>

\* fetchTrades, lines 78-80: /trades is ok; the data is sorted and published,
\* and the render that follows either throws or commits with the [trades]
\* effect of line 42 pending
TradesLoaded(i, data) ==
    /\ Live
    /\ calls[i].stage = "trades"
    /\ calls' = [calls EXCEPT ![i].stage = "published"]
    /\ LET sorted == sortTrades(data)
       IN  IF renderThrows(sorted, tokenMap, bnStrict)
           THEN crashed' = TRUE /\ UNCHANGED <<trades, effectPending>>
           ELSE trades' = sorted /\ effectPending' = TRUE /\ UNCHANGED crashed
    /\ UNCHANGED <<accountId, tokenMap, error, totalVolume, tokensReq, bnStrict, fnVars>>

\* the effect of lines 42-44, whose only dependency is trades
RunEffect ==
    /\ phase = "mounted" /\ ~crashed
    /\ effectPending
    /\ effectPending' = FALSE
    /\ LET out == calculateTotalVolume(trades, tokenMap, bnStrict)
       IN  totalVolume' = IF out.threw THEN totalVolume ELSE out.val
    /\ UNCHANGED <<accountId, trades, tokenMap, error, tokensReq, calls, crashed,
                   bnStrict, fnVars>>

Next ==
    \/ MountEffects
    \/ \E data \in TokenResponses : TokensLoaded(data)
    \/ \E msg \in {"Failed to fetch tokens", "NetworkError"} : TokensFailed(msg)
    \/ \E value \in AccountIds : handleInputChange(value)
    \/ handleButtonClick
    \/ \E i \in 1..Len(calls) : StatusLoaded(i)
    \/ \E i \in 1..Len(calls) :
          \E msg \in {"Failed to fetch status", "Failed to fetch trades", "NetworkError"} :
             FetchTradesFailed(i, msg)
    \/ \E i \in 1..Len(calls) : \E data \in TradeResponses : TradesLoaded(i, data)
    \/ RunEffect

Spec == Init /\ [][Next]_vars

Settled == phase = "mounted" /\ ~crashed /\ ~effectPending

\* C1 (as the specification states it): once the effects have run, the
\* displayed total is the aggregate of the current trades under the current
\* registry, whichever of the two was replaced last, and so it is the sum of
\* the volumes the table shows.
C1_TotalFollowsTradesAndRegistry ==
    (Settled /\ AllValid)
        => /\ totalVolume = calculateTotalVolume(trades, tokenMap, bnStrict).val
           /\ KOf(toFixed3(totalVolume)) = SumK(tokenMap, trades, Len(trades))

SortedDescending(trs) ==
    \A i \in 1..Len(trs) : \A j \in i..Len(trs) : trs[i].block_num >= trs[j].block_num

\* C10: a step in which a fetchTrades call ends in its catch block sets the
\* error message and leaves trades, tokenMap and totalVolume as they were;
\* a step in which a call publishes its data leaves the trades sorted by
\* block_num, largest first.
C10_FailureKeepsStateAndTradesSorted ==
    [][\A i \in 1..Len(calls) :
          /\ (calls[i].stage # "failed" /\ calls'[i].stage = "failed")
                => /\ error' # <<>>
                   /\ UNCHANGED <<trades, tokenMap, totalVolume>>
          /\ (calls[i].stage # "published" /\ calls'[i].stage = "published" /\ ~crashed')
                => SortedDescending(trades')
      ]_vars

\* a call failed after another had published two trades, which stay displayed
C10_Witness ==
    /\ Settled
    /\ Len(calls) = 2
    /\ calls[1].stage = "published" /\ calls[2].stage = "failed"
    /\ error = <<"Failed to fetch trades">>
    /\ trades = <<T2, T1>>
    /\ totalVolume # Zero

=============================================================================
